---- MODULE Spec2Model ----
(***************************************************************************)
(* Model of src/src/main.rs (snake game on the Bevy ECS).                  *)
(*                                                                         *)
(* The world is the set of live entities with their components             *)
(* (SnakeHead, SnakeSegment, Food, Position); the resources are            *)
(* SnakeSegments, LastSnakeSegmentPosition and the two event queues.       *)
(* Every system of main() is one action.  `pc` is the schedule's position  *)
(* inside a frame: snake_movement_input runs once per frame and before     *)
(* snake_movement; the FixedTimestep criteria decide whether the logic     *)
(* set (snake_movement, game_over, snake_eating, snake_growth) and/or      *)
(* spawn_food run; Commands are deferred and applied when the stage's      *)
(* pass ends (apply_buffers), after which the criteria are checked again.  *)
(***************************************************************************)
EXTENDS Integers, Sequences, FiniteSets, TLC

\* ------------------------------------------------------------------ bounds
\* The grid of the source is 20 x 20 (main.rs:5-6); the model checks a smaller
\* grid that still holds the spawn cells (3,3) and (3,2).
GRID_WIDTH == 4
GRID_HEIGHT == 4
\* Longest SnakeSegments vector explored.
MaxLen == 3
\* Most Food entities alive at once.
MaxFood == 2
\* Most SnakeHead entities alive at once.
MaxHeads == 3
\* How many cells beyond the grid edge a head coordinate is followed.
MaxOut == 1
\* Number of sample values of random::<f32>() per axis.
RandSteps == 2

\* ------------------------------------------------------------- data model
Direction == {"Up", "Left", "Right", "Down"}

KeyCode == {"Up", "Left", "Right", "Down"}

opposite(d) ==
    CASE d = "Up" -> "Down"
      [] d = "Left" -> "Right"
      [] d = "Right" -> "Left"
      [] d = "Down" -> "Up"

Pos(px, py) == [x |-> px, y |-> py]

\* Entity ids; enough for every entity alive or reserved during one pass.
Entity == 1..(MaxHeads + MaxLen + MaxFood + 3)

VARIABLES
    pc,                 \* the system the schedule runs next
    food_due,           \* spawn_food's FixedTimestep fired for this pass
    heads,              \* SnakeHead component: entity -> direction
    positions,          \* Position component: entity -> [x, y]
    snake_segment,      \* entities carrying SnakeSegment
    food,               \* entities carrying Food
    segments,           \* resource SnakeSegments: sequence of entities
    last_segment_pos,   \* resource LastSnakeSegmentPosition: <<>> or <<p>>
    growth_events,      \* Events<GrowthEvent> not yet seen by snake_growth's reader
    game_over_events,   \* Events<GameOverEvent> not yet seen by game_over's reader
    commands,           \* deferred Commands of the pass, in issue order
    dir,                \* snake_movement_input's local `dir`; "-" once it returned
    segment_positions,  \* snake_movement's local `segment_positions`
    len_before,         \* history: Len(segments) when the tick started, 0 = no tick
    did_reset,          \* history: game_over took its branch in this tick
    eaten,              \* history: food entities snake_eating despawned in this tick
    kbd_input           \* Input<KeyCode>: the keys held, where InputSpec tracks them

vars == <<pc, food_due, heads, positions, snake_segment, food, segments,
          last_segment_pos, growth_events, game_over_events, commands, dir,
          segment_positions, len_before, did_reset, eaten, kbd_input>>

world == <<heads, positions, snake_segment, food>>
resources == <<segments, last_segment_pos>>
events == <<growth_events, game_over_events>>
history == <<len_before, did_reset, eaten>>

\* ---------------------------------------------------------------- helpers
\* Events<T> as its one reader sees it (add_event, main.rs:98-99): the number
\* of events it has not seen, in the buffer of the last frame and in the
\* buffer of this frame.
NoEvents == [old |-> 0, new |-> 0]

\* EventWriter::send, n times.
Send(ev, n) == [ev EXCEPT !.new = @ + n]

Unread(ev) == ev.old + ev.new

\* Events::update_system, once per frame: the older buffer is dropped.
UpdateEvents(ev) == [old |-> ev.new, new |-> 0]

\* What the reader has not seen after `reader.iter().next()`.  iter() yields
\* the oldest unseen event first.  Whether dropping the iterator after one
\* next() leaves the other events unseen or marks them all as seen depends on
\* the bevy_ecs release the program is built against, which the repository
\* does not pin: both outcomes are kept.
AfterIterNext(ev) ==
    {NoEvents,
     IF ev.old > 0 THEN [ev EXCEPT !.old = @ - 1]
     ELSE IF ev.new > 0 THEN [ev EXCEPT !.new = @ - 1]
     ELSE ev}

\* Ascending sequence of a finite set of entities (query iteration order:
\* entities of one archetype are visited in the order they were added).
RECURSIVE SortedSeq(_)
SortedSeq(S) ==
    IF S = {} THEN <<>>
    ELSE LET m == CHOOSE a \in S : \A b \in S : a <= b
         IN <<m>> \o SortedSeq(S \ {m})

\* heads.iter_mut().next(): the first SnakeHead entity of the query.  Head
\* entities are never despawned, so the first one spawned stays first.
FirstHead == CHOOSE h \in DOMAIN heads : \A g \in DOMAIN heads : h <= g

\* Entities reserved by spawn commands that are not applied yet.
Reserved(cmds) == {cmds[i].entity : i \in {j \in DOMAIN cmds : cmds[j].op = "spawn"}}

\* Commands::spawn_bundle(..).id(): a fresh entity id.
NewEntity(alive, cmds) ==
    CHOOSE e \in Entity :
        /\ e \notin alive \cup Reserved(cmds)
        /\ \A o \in Entity : o \notin alive \cup Reserved(cmds) => e <= o

Despawn(e) == [op |-> "despawn", entity |-> e, bundle |-> "-", position |-> Pos(0, 0)]

Spawn(e, b, p) == [op |-> "spawn", entity |-> e, bundle |-> b, position |-> p]

RECURSIVE DespawnAll(_)
DespawnAll(es) ==
    IF es = <<>> THEN <<>> ELSE <<Despawn(Head(es))>> \o DespawnAll(Tail(es))

\* The head's step (main.rs:171-184): plain i32 arithmetic, no wrap, no clamp.
Move(p, d) ==
    CASE d = "Up" -> [p EXCEPT !.y = @ + 1]
      [] d = "Left" -> [p EXCEPT !.x = @ - 1]
      [] d = "Right" -> [p EXCEPT !.x = @ + 1]
      [] d = "Down" -> [p EXCEPT !.y = @ - 1]

\* The boundary test of main.rs:185-188.
MutEagerOutOfGrid(p) == p.x <= 0 \/ p.y <= 0 \/ p.x >= GRID_WIDTH \/ p.y >= GRID_HEIGHT

MutOutOfGrid(p) == p.x < 0 \/ p.y < 0 \/ p.x > GRID_WIDTH \/ p.y > GRID_HEIGHT

OutOfGrid(p) == p.x < 0 \/ p.y < 0 \/ p.x >= GRID_WIDTH \/ p.y >= GRID_HEIGHT

\* Vec::contains
Contains(s, p) == \E i \in DOMAIN s : s[i] = p

\* The segments' positions collected before the move (main.rs:166-169).
SegmentPositions(segs, pos) == [i \in 1..Len(segs) |-> pos[segs[i]]]

\* The body shift of main.rs:193-200: segment_positions zipped with the
\* segments after the first, so each takes the place of the one ahead of it.
MutShiftBody(pos, segs, sp) ==
    [e \in DOMAIN pos |->
        IF \E i \in 2..Len(segs) : segs[i] = e
        THEN sp[CHOOSE i \in 2..Len(segs) : segs[i] = e]
        ELSE pos[e]]

ShiftBody(pos, segs, sp) ==
    [e \in DOMAIN pos |->
        IF \E i \in 2..Len(segs) : segs[i] = e
        THEN sp[(CHOOSE i \in 2..Len(segs) : segs[i] = e) - 1]
        ELSE pos[e]]

\* The whole condition of main.rs:185-189.
MutGameOverCondition(head_pos, seg_pos) == OutOfGrid(head_pos)

GameOverCondition(head_pos, seg_pos) == OutOfGrid(head_pos) \/ Contains(seg_pos, head_pos)

\* spawn_snake (main.rs:138-156): reserves the head, then the segment, queues
\* their bundles and overwrites SnakeSegments at once.
MutSpawnSnake(alive, cmds) ==
    LET h == NewEntity(alive, cmds)
        c1 == Append(cmds, Spawn(h, "SnakeHead", Pos(3, 3)))
    IN [segments |-> <<>>, commands |-> c1]

SpawnSnake(alive, cmds) ==
    LET h == NewEntity(alive, cmds)
        c1 == Append(cmds, Spawn(h, "SnakeHead", Pos(3, 3)))
        s == NewEntity(alive, c1)
        c2 == Append(c1, Spawn(s, "SnakeSegment", Pos(3, 2)))
    IN [segments |-> <<h, s>>, commands |-> c2]

MutRequestedDirection(kbd, current) ==
    IF "Up" \in kbd THEN "Up"
    ELSE IF "Right" \in kbd THEN "Right"
    ELSE IF "Left" \in kbd THEN "Left"
    ELSE IF "Down" \in kbd THEN "Down"
    ELSE current

\* The direction snake_movement_input asks for (main.rs:216-226).
RequestedDirection(kbd, current) ==
    IF "Up" \in kbd THEN "Up"
    ELSE IF "Left" \in kbd THEN "Left"
    ELSE IF "Right" \in kbd THEN "Right"
    ELSE IF "Down" \in kbd THEN "Down"
    ELSE current

\* The heading after main.rs:227-229.
MutNewHeading(d, current) == d

NewHeading(d, current) == IF d # opposite(current) THEN d ELSE current

\* (random::<f32>() * GRID as f32) as i32 for the sample (2k+1)/(2*RandSteps).
RandomCell(k, size) == ((2 * k + 1) * size) \div (2 * RandSteps)

\* One command applied to the world w = [heads, positions, snake_segment, food].
ApplyCommand(w, c) ==
    IF c.op = "despawn"
    THEN [heads |-> [e \in DOMAIN w.heads \ {c.entity} |-> w.heads[e]],
          positions |-> [e \in DOMAIN w.positions \ {c.entity} |-> w.positions[e]],
          snake_segment |-> w.snake_segment \ {c.entity},
          food |-> w.food \ {c.entity}]
    ELSE [heads |-> IF c.bundle = "SnakeHead"
                    THEN (c.entity :> "Up") @@ w.heads ELSE w.heads,
          positions |-> (c.entity :> c.position) @@ w.positions,
          snake_segment |-> IF c.bundle = "SnakeSegment"
                            THEN w.snake_segment \cup {c.entity} ELSE w.snake_segment,
          food |-> IF c.bundle = "Food" THEN w.food \cup {c.entity} ELSE w.food]

RECURSIVE ApplyCommands(_, _)
ApplyCommands(w, cmds) ==
    IF cmds = <<>> THEN w ELSE ApplyCommands(ApplyCommand(w, Head(cmds)), Tail(cmds))

\* Entity ids are opaque handles.  To keep one state per world, the live
\* entities are renamed after every pass: the SnakeHead entities first, in the
\* order they were spawned, then the SnakeSegment entities in SnakeSegments
\* order, then the Food entities by cell.  `segs` is renamed with them.
FoodKey(w, f) == (w.positions[f].x * (GRID_HEIGHT + 1) + w.positions[f].y) * (MaxHeads + MaxLen + MaxFood + 4) + f

RECURSIVE FoodOrder(_, _)
FoodOrder(w, S) ==
    IF S = {} THEN <<>>
    ELSE LET m == CHOOSE a \in S : \A b \in S : FoodKey(w, a) <= FoodKey(w, b)
         IN <<m>> \o FoodOrder(w, S \ {m})

Canonical(w, segs) ==
    LET inSegs == SelectSeq(segs, LAMBDA e : e \in w.snake_segment)
        body == inSegs \o SortedSeq(w.snake_segment \ {inSegs[i] : i \in DOMAIN inSegs})
        order == SortedSeq(DOMAIN w.heads) \o body \o FoodOrder(w, w.food)
        ren == [e \in DOMAIN w.positions |-> CHOOSE i \in DOMAIN order : order[i] = e]
        old == [i \in DOMAIN order |-> order[i]]
    IN [heads |-> [i \in {ren[e] : e \in DOMAIN w.heads} |-> w.heads[old[i]]],
        positions |-> [i \in DOMAIN order |-> w.positions[old[i]]],
        snake_segment |-> {ren[e] : e \in w.snake_segment},
        food |-> {ren[e] : e \in w.food},
        segments |-> [i \in DOMAIN segs |-> ren[segs[i]]]]

\* ------------------------------------------------------------------- Init
\* The state after the startup systems: spawn_snake has run and its commands
\* are applied; both resources otherwise hold their defaults.
Init ==
    /\ pc = "snake_movement_input"
    /\ food_due = FALSE
    /\ LET s == SpawnSnake({}, <<>>)
           w == ApplyCommands([heads |-> <<>>, positions |-> <<>>,
                               snake_segment |-> {}, food |-> {}], s.commands)
       IN /\ segments = s.segments
          /\ heads = w.heads
          /\ positions = w.positions
          /\ snake_segment = w.snake_segment
          /\ food = w.food
    /\ last_segment_pos = <<>>
    /\ growth_events = NoEvents
    /\ game_over_events = NoEvents
    /\ commands = <<>>
    /\ dir = "-"
    /\ segment_positions = <<>>
    /\ len_before = 0
    /\ did_reset = FALSE
    /\ eaten = {}
    /\ kbd_input = {}

\* ---------------------------------------------------------------- actions
\* The body of snake_movement_input (main.rs:210-231).  kbd is the set of
\* keys for which Input::pressed is true.
InputStep(kbd) ==
    /\ pc = "snake_movement_input"
    /\ IF DOMAIN heads # {}
       THEN LET head == FirstHead
                d == RequestedDirection(kbd, heads[head])
            IN /\ dir' = d
               /\ heads' = [heads EXCEPT ![head] = NewHeading(d, @)]
       ELSE UNCHANGED <<dir, heads>>
    /\ pc' = "run_criteria"
    /\ UNCHANGED <<food_due, positions, snake_segment, food, resources, events,
                   commands, segment_positions, history, kbd_input>>

\* snake_movement_input, once per frame, before snake_movement, with any set
\* of keys held.
snake_movement_input == \E kbd \in SUBSET KeyCode : InputStep(kbd)

\* Bound of the exploration: the tick that would start from this state keeps
\* the head within MaxOut cells of the grid, the number of SnakeHead entities
\* within MaxHeads and the SnakeSegments vector within MaxLen.
TickWithinBounds ==
    LET head == FirstHead
        np == Move(positions[head], heads[head])
        sp == SegmentPositions(segments, positions)
        over == GameOverCondition(np, sp)
        eats == \/ Unread(growth_events) > 0
                \/ \E g \in DOMAIN heads : \E f \in food :
                       positions[f] = (IF g = head THEN np ELSE positions[g])
    IN /\ np.x >= 0 - MaxOut /\ np.x < GRID_WIDTH + MaxOut
       /\ np.y >= 0 - MaxOut /\ np.y < GRID_HEIGHT + MaxOut
       /\ over => Cardinality(DOMAIN heads) < MaxHeads
       /\ eats => (IF over THEN 2 ELSE Len(segments)) < MaxLen

\* FixedTimestep::step(0.2) and FixedTimestep::step(1.0) (main.rs:108-120):
\* each criterion fires or not, depending on the time the host let pass.  At
\* least one fires here; the pass then runs the systems whose criterion fired.
fixed_timestep ==
    /\ pc = "run_criteria"
    /\ \E tick \in BOOLEAN, fd \in BOOLEAN :
         /\ tick \/ fd
         /\ tick => TickWithinBounds
         /\ fd => Cardinality(food) < MaxFood
         /\ food_due' = fd
         /\ pc' = IF tick THEN "snake_movement" ELSE "spawn_food"
         /\ len_before' = IF tick THEN Len(segments) ELSE 0
    /\ did_reset' = FALSE
    /\ eaten' = {}
    /\ dir' = "-"
    /\ UNCHANGED <<world, resources, events, commands, segment_positions, kbd_input>>

\* Neither criterion fires (again): the frame ends.  The next one begins with
\* Events::update_system (CoreStage::First) and then the input system.
next_frame ==
    /\ pc = "run_criteria"
    /\ pc' = "snake_movement_input"
    /\ len_before' = 0
    /\ did_reset' = FALSE
    /\ eaten' = {}
    /\ dir' = "-"
    /\ growth_events' = UpdateEvents(growth_events)
    /\ game_over_events' = UpdateEvents(game_over_events)
    /\ UNCHANGED <<food_due, world, resources, commands, segment_positions, kbd_input>>

MutFirstSegmentPosition(sp) == <<sp[1]>>

MutNoSegmentPosition(sp) == <<>>

\* The value snake_movement stores in LastSegmentPosition (main.rs:201-205):
\* Some(position the last segment had before the move).
LastSegmentPosition(sp) == <<sp[Len(sp)]>>

\* snake_movement (main.rs:158-207).
snake_movement ==
    /\ pc = "snake_movement"
    /\ IF DOMAIN heads # {}
       THEN LET head_entity == FirstHead
                sp == SegmentPositions(segments, positions)
                head_pos == Move(positions[head_entity], heads[head_entity])
                moved == [positions EXCEPT ![head_entity] = head_pos]
            IN /\ segment_positions' = sp
               /\ game_over_events' =
                      IF GameOverCondition(head_pos, sp)
                      THEN Send(game_over_events, 1) ELSE game_over_events
               /\ positions' = ShiftBody(moved, segments, sp)
               /\ last_segment_pos' = LastSegmentPosition(sp)
       ELSE UNCHANGED <<segment_positions, game_over_events, positions, last_segment_pos>>
    /\ pc' = "game_over"
    /\ UNCHANGED <<food_due, heads, snake_segment, food, segments, growth_events,
                   commands, dir, history, kbd_input>>

\* game_over (main.rs:292-305).  The despawns and spawn_snake's bundles are
\* queued, SnakeSegments is overwritten at once.
game_over ==
    /\ pc = "game_over"
    /\ IF Unread(game_over_events) > 0
       THEN LET gone == DespawnAll(SortedSeq(food) \o SortedSeq(snake_segment))
                s == SpawnSnake(DOMAIN positions, commands \o gone)
            IN /\ commands' = s.commands
               /\ segments' = s.segments
               /\ did_reset' = TRUE
       ELSE UNCHANGED <<commands, segments, did_reset>>
    /\ game_over_events' \in AfterIterNext(game_over_events)
    /\ pc' = "snake_eating"
    /\ UNCHANGED <<food_due, world, last_segment_pos, growth_events, dir,
                   segment_positions, len_before, eaten, kbd_input>>

\* The (head, food) pairs of snake_eating's nested loops that match.
EatenBy(h) == SelectSeq(SortedSeq(food), LAMBDA f : positions[f] = positions[h])

RECURSIVE EatenAll(_)
EatenAll(hs) == IF hs = <<>> THEN <<>> ELSE EatenBy(Head(hs)) \o EatenAll(Tail(hs))

\* snake_eating (main.rs:248-262): every SnakeHead against every Food.
snake_eating ==
    /\ pc = "snake_eating"
    /\ LET hit == EatenAll(SortedSeq(DOMAIN heads))
       IN /\ commands' = commands \o DespawnAll(hit)
          /\ growth_events' = Send(growth_events, Len(hit))
          /\ eaten' = {hit[i] : i \in DOMAIN hit}
    /\ pc' = "snake_growth"
    /\ UNCHANGED <<food_due, world, resources, game_over_events, dir,
                   segment_positions, len_before, did_reset, kbd_input>>

\* snake_growth (main.rs:264-273).  last_segment_pos.0.unwrap() panics on None.
snake_growth ==
    /\ pc = "snake_growth"
    /\ IF Unread(growth_events) > 0
       THEN IF last_segment_pos = <<>>
            THEN /\ pc' = "panic"
                 /\ UNCHANGED <<segments, commands>>
            ELSE LET e == NewEntity(DOMAIN positions, commands)
                 IN /\ segments' = Append(segments, e)
                    /\ commands' = Append(commands, Spawn(e, "SnakeSegment", last_segment_pos[1]))
                    /\ pc' = IF food_due THEN "spawn_food" ELSE "apply_buffers"
       ELSE /\ pc' = IF food_due THEN "spawn_food" ELSE "apply_buffers"
            /\ UNCHANGED <<segments, commands>>
    /\ growth_events' \in AfterIterNext(growth_events)
    /\ UNCHANGED <<food_due, world, last_segment_pos, game_over_events, dir,
                   segment_positions, history, kbd_input>>

\* spawn_food (main.rs:275-290).  It only queues a command, so its place
\* among the systems of the pass does not matter.
spawn_food ==
    /\ pc = "spawn_food"
    /\ \E rx \in 0..(RandSteps - 1), ry \in 0..(RandSteps - 1) :
         commands' = Append(commands,
             Spawn(NewEntity(DOMAIN positions, commands), "Food",
                   Pos(RandomCell(rx, GRID_WIDTH), RandomCell(ry, GRID_HEIGHT))))
    /\ pc' = "apply_buffers"
    /\ UNCHANGED <<food_due, world, resources, events, dir, segment_positions, history,
                   kbd_input>>

\* End of the pass: every system's command queue is applied to the world,
\* then the run criteria are evaluated again.
apply_buffers ==
    /\ pc = "apply_buffers"
    /\ LET applied == ApplyCommands([heads |-> heads, positions |-> positions,
                                     snake_segment |-> snake_segment, food |-> food], commands)
           w == Canonical(applied, segments)
       IN /\ heads' = w.heads
          /\ positions' = w.positions
          /\ snake_segment' = w.snake_segment
          /\ food' = w.food
          /\ segments' = w.segments
    /\ commands' = <<>>
    /\ segment_positions' = <<>>
    /\ pc' = "run_criteria"
    /\ UNCHANGED <<food_due, last_segment_pos, events, dir, history, kbd_input>>

Next ==
    \/ snake_movement_input
    \/ fixed_timestep
    \/ next_frame
    \/ snake_movement
    \/ game_over
    \/ snake_eating
    \/ snake_growth
    \/ spawn_food
    \/ apply_buffers

Spec == Init /\ [][Next]_vars

\* -------------------------------------------------------------- InputSpec
\* The frames in which neither FixedTimestep fires, with the held keys kept
\* in kbd_input: the engine's keyboard_input_system updates Input<KeyCode>
\* (add_plugins(DefaultPlugins), main.rs:122), snake_movement_input reads it,
\* the frame ends.
keyboard_input_system ==
    /\ pc = "keyboard_input_system"
    /\ kbd_input' \in SUBSET KeyCode
    /\ pc' = "snake_movement_input"
    /\ UNCHANGED <<food_due, world, resources, events, commands, dir,
                   segment_positions, history>>

read_kbd_input == InputStep(kbd_input)

end_frame ==
    /\ pc = "run_criteria"
    /\ pc' = "keyboard_input_system"
    /\ dir' = "-"
    /\ UNCHANGED <<food_due, world, resources, events, commands,
                   segment_positions, history, kbd_input>>

NextInput ==
    \/ keyboard_input_system
    \/ read_kbd_input
    \/ end_frame

InputSpec == Init /\ [][NextInput]_vars

TypeOK ==
    /\ DOMAIN heads \subseteq Entity
    /\ DOMAIN positions \subseteq Entity
    /\ Len(segments) <= MaxLen
    /\ Cardinality(food) <= MaxFood
    /\ Cardinality(DOMAIN heads) <= MaxHeads
    /\ pc # "panic"

\* ------------------------------------------------------------------ claims
\* The state right after snake_movement has pc = "game_over"; there
\* segment_positions holds the positions the segments had before the move.
\* The end of a tick is the state with pc = "run_criteria" and len_before > 0.
InGrid(p) == 0 <= p.x /\ p.x < GRID_WIDTH /\ 0 <= p.y /\ p.y < GRID_HEIGHT

\* C1: at the end of a tick in which game_over handled a GameOverEvent the
\* snake is the spawn configuration (two segments: a head at (3,3) heading Up,
\* a body segment at (3,2)), no food exists and no other head or body entity
\* is left.
C1_ResetRestoresSpawn ==
    (pc = "run_criteria" /\ did_reset) =>
        /\ Len(segments) = 2
        /\ segments[1] \in DOMAIN heads
        /\ heads[segments[1]] = "Up"
        /\ positions[segments[1]] = Pos(3, 3)
        /\ segments[2] \in snake_segment
        /\ positions[segments[2]] = Pos(3, 2)
        /\ food = {}
        /\ DOMAIN heads \cup snake_segment = {segments[1], segments[2]}

\* C2: whatever was sampled by the input system between two ticks, the head
\* that snake_movement moved is not on the cell the second segment held
\* before the move.
C2_NeverReversesIntoNeck ==
    (pc = "game_over" /\ Len(segment_positions) >= 2) =>
        positions[FirstHead] # segment_positions[2]

\* C3: one run of snake_movement_input never leaves a head with the opposite
\* of the heading it had before, and a request for the opposite leaves the
\* heading as it was.
C3_OppositeRejected ==
    [][pc = "snake_movement_input" =>
          /\ \A h \in DOMAIN heads :
                 ~(heads[h] = "Up" /\ heads'[h] = "Down")
              /\ ~(heads[h] = "Down" /\ heads'[h] = "Up")
              /\ ~(heads[h] = "Left" /\ heads'[h] = "Right")
              /\ ~(heads[h] = "Right" /\ heads'[h] = "Left")
          /\ \A d \in Direction :
                 (heads[FirstHead] = d /\ dir' = opposite(d)) => heads'[FirstHead] = d]_vars

\* C3 witness: the input system has just run, the opposite of the heading was
\* requested, and the heading is still Up.
C3_Witness ==
    /\ pc = "run_criteria"
    /\ dir = "Down"
    /\ heads[FirstHead] = "Up"

\* C4: SnakeSegments is never empty, at any point of any tick.
C4_SnakeNeverEmpty == Len(segments) >= 1

\* C4 witness: game_over has just overwritten SnakeSegments in a tick that
\* started with a grown snake.
C4_Witness ==
    /\ pc = "snake_eating"
    /\ did_reset
    /\ len_before = 3
    /\ Len(segments) = 2

\* C5: after snake_movement every segment but the first is where the segment
\* ahead of it was before the move.
C5_Follow ==
    pc = "game_over" =>
        /\ Len(segment_positions) = Len(segments)
        /\ \A i \in 2..Len(segments) :
               positions[segments[i]] = segment_positions[i - 1]

\* C5 witness: a three-segment snake has just moved without a game over, its
\* three segments on three different cells.
C5_Witness ==
    /\ pc = "game_over"
    /\ Len(segments) = 3
    /\ Unread(game_over_events) = 0
    /\ Cardinality({positions[segments[i]] : i \in 1..3}) = 3
    /\ positions[segments[2]] = segment_positions[1]
    /\ positions[segments[3]] = segment_positions[2]

\* C6: in every movement tick the first element of SnakeSegments moves one
\* cell in its heading (Up: y + 1, Down: y - 1, Left: x - 1, Right: x + 1).
C6_FirstSegmentMovesOneCell ==
    pc = "game_over" =>
        LET h == segments[1]
            before == segment_positions[1]
            after == positions[h]
        IN /\ h \in DOMAIN heads
           /\ heads[h] = "Up" => after = Pos(before.x, before.y + 1)
           /\ heads[h] = "Down" => after = Pos(before.x, before.y - 1)
           /\ heads[h] = "Left" => after = Pos(before.x - 1, before.y)
           /\ heads[h] = "Right" => after = Pos(before.x + 1, before.y)

\* C7: a head that is outside the grid after snake_movement comes with a
\* GameOverEvent sent in that run of snake_movement.
C7_WallRaisesGameOver ==
    pc = "game_over" =>
        \A h \in DOMAIN heads :
            ~InGrid(positions[h]) => game_over_events.new >= 1

\* C7 witness: the head has just left the grid through the left edge and
\* the event is there.
C7_Witness ==
    /\ pc = "game_over"
    /\ positions[FirstHead].x = 0 - 1
    /\ Cardinality(DOMAIN heads) = 1
    /\ game_over_events.new = 1

\* C8: if the head that snake_movement moved is on a cell that a body segment
\* (any but the first of SnakeSegments, the tail included) held before the
\* move, a GameOverEvent was sent in that run of snake_movement.
C8_SelfCollisionRaisesGameOver ==
    pc = "game_over" =>
        ((\E i \in 2..Len(segment_positions) : segment_positions[i] = positions[FirstHead])
            => game_over_events.new >= 1)

\* C8 witness: the head has just moved, inside the grid, onto the cell the
\* tail of a three-segment snake held before the move.
C8_Witness ==
    /\ pc = "game_over"
    /\ Len(segment_positions) = 3
    /\ InGrid(positions[FirstHead])
    /\ positions[FirstHead] = segment_positions[3]
    /\ positions[FirstHead] # segment_positions[2]
    /\ game_over_events.new = 1

\* C9: snake_eating despawns exactly the food on the cell of the head that
\* snake_movement moved, and sends a GrowthEvent when it despawns one.
C9_EatsFoodOnHeadCellOnly ==
    pc = "snake_growth" =>
        /\ \A f \in food : f \in eaten <=> positions[f] = positions[FirstHead]
        /\ eaten # {} => growth_events.new >= 1

\* C11: a run of snake_growth that consumes a GrowthEvent appends exactly one
\* new entity at the end of SnakeSegments and queues its spawn at the position
\* the last segment held before this tick's snake_movement; at the end of a
\* tick that grew the snake, the last segment is on the recorded last
\* vacated position.
C11_GrowthAppendsAtVacatedTail ==
    /\ [][pc = "snake_growth" /\ Unread(growth_events) > 0 =>
              /\ segments' = Append(segments, segments'[Len(segments')])
              /\ segments'[Len(segments')] \notin DOMAIN positions
              /\ segment_positions # <<>>
              /\ commands' = Append(commands,
                     Spawn(segments'[Len(segments')], "SnakeSegment",
                           segment_positions[Len(segment_positions)]))]_vars
    /\ [](pc = "run_criteria" /\ len_before > 0
            /\ Len(segments) > (IF did_reset THEN 2 ELSE len_before) =>
              /\ Len(segments) = (IF did_reset THEN 2 ELSE len_before) + 1
              /\ last_segment_pos # <<>>
              /\ positions[segments[Len(segments)]] = last_segment_pos[1])

\* C11 witness: the first game's snake, head (2,3) and segment (3,3), has
\* moved left onto food at (1,3) and is now (1,3), (2,3), (3,3).
C11_Witness ==
    /\ pc = "run_criteria"
    /\ len_before = 2
    /\ ~did_reset
    /\ Cardinality(DOMAIN heads) = 1
    /\ Len(segments) = 3
    /\ positions[segments[1]] = Pos(1, 3)
    /\ positions[segments[2]] = Pos(2, 3)
    /\ positions[segments[3]] = Pos(3, 3)
    /\ last_segment_pos = <<Pos(3, 3)>>

\* C12: in a tick in which a GameOverEvent was read and game_over reset the
\* game, snake_growth appends no segment: SnakeSegments keeps the two entities
\* spawn_snake put there.
C12_NoGrowthInResetTick ==
    did_reset => Len(segments) = 2

\* C13: whenever snake_growth is about to consume a GrowthEvent, snake_movement
\* has already recorded a last segment position, so the unwrap in snake_growth
\* never meets None and the program never panics there.
C13_GrowthAfterMovement ==
    /\ pc # "panic"
    /\ pc = "snake_growth" /\ Unread(growth_events) > 0 => last_segment_pos # <<>>

\* C13 witness: snake_growth is about to consume a GrowthEvent sent in this
\* tick, with the last segment position recorded.
C13_Witness ==
    /\ pc = "snake_growth"
    /\ growth_events.new > 0
    /\ eaten # {}
    /\ last_segment_pos # <<>>

\* C14: the world never holds more than one Food entity.
C14_AtMostOneFood ==
    Cardinality(food) <= 1

\* C15: between passes exactly one entity has the SnakeHead component, and it
\* is the first entity of SnakeSegments; it is the entity snake_movement_input
\* steers and snake_movement moves.
C15_OneHeadFirstOfSegments ==
    pc \in {"run_criteria", "snake_movement_input"} =>
        /\ Cardinality(DOMAIN heads) = 1
        /\ segments[1] \in DOMAIN heads
        /\ FirstHead = segments[1]

\* The head snake_movement has just moved is outside the grid or on a cell a
\* segment held before the move.
PostMoveHeadCollides ==
    \/ ~InGrid(positions[FirstHead])
    \/ \E i \in DOMAIN segment_positions : segment_positions[i] = positions[FirstHead]

\* C16: a tick sends at most one GameOverEvent, and only when the moved head
\* is outside the grid or on a pre-move segment position; no GameOverEvent is
\* pending outside the tick that sent it, and game_over resets the game only
\* in such a tick.
C16_GameOverOnlyOnCollision ==
    /\ pc = "game_over" =>
          /\ Unread(game_over_events) <= 1
          /\ Unread(game_over_events) = 1 => PostMoveHeadCollides
    /\ pc # "game_over" => Unread(game_over_events) = 0
    /\ did_reset /\ pc \in {"snake_eating", "snake_growth", "spawn_food", "apply_buffers"}
          => PostMoveHeadCollides

\* C16 witness: a three-segment snake has moved its head to a free cell
\* inside the grid; no GameOverEvent was sent and game_over left the game as
\* it is.
C16_Witness ==
    /\ pc = "snake_eating"
    /\ Len(segment_positions) = 3
    /\ ~PostMoveHeadCollides
    /\ ~did_reset
    /\ Len(segments) = 3

\* C17: one run of snake_movement_input with the keys kbd_input held requests
\* the first held key in the order Up, Left, Right, Down, or the current
\* heading when none is held; the heading becomes the requested direction
\* unless that is the opposite of the current heading, in which case it stays,
\* whatever other keys are held; nothing but the heading (and the local dir)
\* changes.
C17_FirstHeldKeyInFixedOrder ==
    [][pc = "snake_movement_input" =>
         LET cur == heads[FirstHead]
             req == IF "Up" \in kbd_input THEN "Up"
                    ELSE IF "Left" \in kbd_input THEN "Left"
                    ELSE IF "Right" \in kbd_input THEN "Right"
                    ELSE IF "Down" \in kbd_input THEN "Down"
                    ELSE cur
             reversed == \/ cur = "Up" /\ req = "Down"
                         \/ cur = "Down" /\ req = "Up"
                         \/ cur = "Left" /\ req = "Right"
                         \/ cur = "Right" /\ req = "Left"
         IN /\ dir' = req
            /\ heads'[FirstHead] = (IF reversed THEN cur ELSE req)
            /\ kbd_input = {} => heads' = heads
            /\ DOMAIN heads' = DOMAIN heads
            /\ \A h \in DOMAIN heads \ {FirstHead} : heads'[h] = heads[h]
            /\ UNCHANGED <<food_due, positions, snake_segment, food, segments,
                           last_segment_pos, growth_events, game_over_events,
                           commands, segment_positions, kbd_input>>]_vars

\* C17 witness: with Up and Left held while heading Down, Up was requested
\* and the heading stayed Down although Left would have been accepted.
C17_Witness ==
    /\ pc = "run_criteria"
    /\ kbd_input = {"Up", "Left"}
    /\ dir = "Up"
    /\ heads[FirstHead] = "Down"

\* C18: when snake_movement starts, the head it is about to move is inside
\* the grid.
C18_MovedHeadStartsInGrid ==
    pc = "snake_movement" => InGrid(positions[FirstHead])

\* Two cells that differ by exactly 1 in exactly one axis.
Adjacent(p, q) ==
    \/ p.x = q.x /\ (p.y = q.y + 1 \/ q.y = p.y + 1)
    \/ p.y = q.y /\ (p.x = q.x + 1 \/ q.x = p.x + 1)

\* C19: after a tick has completed and its commands are applied, the
\* entities of SnakeSegments are on pairwise distinct cells.
C19_SegmentsOnDistinctCells ==
    pc = "run_criteria" /\ len_before > 0 =>
        \A i, j \in DOMAIN segments :
            i # j => positions[segments[i]] # positions[segments[j]]

\* C20: after a tick has completed and its commands are applied, every
\* entity of SnakeSegments is orthogonally adjacent to the one before it.
C20_ConsecutiveSegmentsAdjacent ==
    pc = "run_criteria" /\ len_before > 0 =>
        \A i \in 1..(Len(segments) - 1) :
            Adjacent(positions[segments[i]], positions[segments[i + 1]])

====
